---- MODULE Spec2Model ----
(***************************************************************************)
(* A model of reconcile/utils/quay_api.py (class QuayApi) and              *)
(* reconcile/utils/amtool.py (check_config).                               *)
(*                                                                         *)
(* The client is sequential: every method is one atomic action.  The       *)
(* registry server and the amtool binary are the environment; what they    *)
(* answer is an input of the action, drawn from a small set.  Besides the  *)
(* client's own state (organization, team_members) the model records, for  *)
(* the most recent call, its name and arguments (op, args), the cache      *)
(* before it (pre), the HTTP requests it issued, each with the response    *)
(* it got (http), and how it ended (ret), and, per team, the names of the  *)
(* last successful members response (fetched).                             *)
(***************************************************************************)
EXTENDS Integers, Sequences, FiniteSets, TLC

VARIABLES organization, team_members, op, args, pre, http, ret, fetched

vars == <<organization, team_members, op, args, pre, http, ret, fetched>>

(* ------------------------------ bounds --------------------------------- *)

\* longest 'members' array of a members response
MaxMembers == 2
\* longest chain of repository pages the server serves
MaxPages == 18
\* longest captured stdout of the tool, in bytes
MaxOut == 2

Organizations == {"acme", "globex"}
Teams == {"blue", "red"}
Users == {"alice", "bob"}

\* Final status codes of a response.  requests follows redirects, so the
\* final status of a call is a 2xx, a 4xx or a 5xx.
OkStatuses == {200, 201}
FailStatuses == {404, 500}
Statuses == OkStatuses \cup FailStatuses
\* bodies of failed responses, as text
Texts == {"denied", "oops"}

SeqsUpTo(S, n) == UNION {[1..k -> S] : k \in 0..n}

Range(s) == {s[i] : i \in DOMAIN s}

(* ------------------------------ values --------------------------------- *)

None == [none |-> TRUE]

Return(v) == [kind |-> "return", value |-> v]
Raise(e) == [kind |-> "raise", exc |-> e]

\* RequestsException.__init__: message = "\nCode: %s\n%s" % (status_code, text)
RequestsException(r) ==
    [type |-> "RequestsException",
     message |-> <<"\nCode: ", r.status_code, "\n", r.text>>]

\* mutant: the two names are formatted in the wrong order
TeamNotFoundSwapped(team, org) ==
    [type |-> "ValueError",
     message |-> <<"team ", org, " is not found in org ", team,
                   ". contact org owner to create the team manually.">>]

\* the ValueError of list_team_members on a 404
TeamNotFound(team, org) ==
    [type |-> "ValueError",
     message |-> <<"team ", team, " is not found in org ", org,
                   ". contact org owner to create the team manually.">>]

\* requests.Response.ok: the status is below 400
ok(r) == r.status_code < 400

\* one request of the client with the response it got
Request(method, endpoint, team, user, page, r) ==
    [method |-> method, endpoint |-> endpoint, team |-> team, user |-> user,
     page |-> page, r |-> r]

(* ------------------------- list_team_members --------------------------- *)

\* responses of GET organization/{org}/team/{team}/members
MemberResponses ==
    [status_code : {200}, text : {""}, members : SeqsUpTo(Users, MaxMembers)]
    \cup [status_code : FailStatuses, text : Texts, members : {<<>>}]

\* the orders list(set) may produce: every sequence holding each name once
Orderings(S) ==
    {s \in [1..Cardinality(S) -> S] : Range(s) = S}

\* mutant: the names are listed as the response has them
MembersListsRaw(r) == {r.members}

\* lines 42-47: the lists the method may build from a members response, the
\* names collected in a set and the set turned into a list
MembersLists(r) == Orderings(Range(r.members))

\* lines 23-26: the cached list is used when the 'cache' argument is truthy
\* and team_members.get(team) is truthy (present and not empty)
CacheHit(tm, team, cache) ==
    cache /\ team \in DOMAIN tm /\ tm[team] # <<>>

\* mutant: the dictionary is rebuilt with the one entry
DictSetOnly(tm, team, list) == [t \in {team} |-> list]

\* dict assignment tm[team] = list
DictSet(tm, team, list) ==
    [t \in DOMAIN tm \cup {team} |-> IF t = team THEN list ELSE tm[t]]

\* list_team_members(team, cache=cache) on a client whose cache is tm, when
\* the server answers r to the GET (if one is issued) and list(set) yields
\* the order members_list.  Gives the outcome, the requests issued, the
\* cache afterwards and whether a members response was accepted.
list_team_members(org, tm, team, cache, r, members_list) ==
    IF CacheHit(tm, team, cache)
    THEN [ret |-> Return(tm[team]), http |-> <<>>, tm |-> tm, got |-> FALSE]
    ELSE LET get == <<Request("GET", "team_members", team, "", None, r)>> IN
         IF r.status_code = 404
         THEN [ret |-> Raise(TeamNotFound(team, org)), http |-> get,
               tm |-> tm, got |-> FALSE]
         ELSE IF ~ok(r)
         THEN [ret |-> Raise(RequestsException(r)), http |-> get,
               tm |-> tm, got |-> FALSE]
         ELSE [ret |-> Return(members_list), http |-> get,
               tm |-> DictSet(tm, team, members_list), got |-> TRUE]

ListTeamMembers ==
    \E team \in Teams, cache \in BOOLEAN, r \in MemberResponses :
      \E members_list \in MembersLists(r) :
        LET o == list_team_members(organization, team_members, team, cache,
                                   r, members_list) IN
        /\ op' = "list_team_members"
        /\ args' = [team |-> team, cache |-> cache]
        /\ pre' = team_members
        /\ http' = o.http
        /\ ret' = o.ret
        /\ team_members' = o.tm
        /\ fetched' = IF o.got THEN DictSet(fetched, team, Range(r.members))
                      ELSE fetched
        /\ UNCHANGED organization

(* ----------------------------- user_exists ----------------------------- *)

\* responses whose body the method does not read
PlainResponses ==
    [status_code : OkStatuses, text : {""}]
    \cup [status_code : FailStatuses, text : Texts]

\* mutant: only a 404 counts as absent
user_exists_404(user, r) ==
    [ret |-> IF r.status_code = 404 THEN Return(FALSE) ELSE Return(TRUE),
     http |-> <<Request("GET", "users", "", user, None, r)>>]

user_exists(user, r) ==
    [ret |-> IF ~ok(r) THEN Return(FALSE) ELSE Return(TRUE),
     http |-> <<Request("GET", "users", "", user, None, r)>>]

UserExists ==
    \E user \in Users, r \in PlainResponses :
        LET o == user_exists(user, r) IN
        /\ op' = "user_exists"
        /\ args' = [user |-> user]
        /\ pre' = team_members
        /\ http' = o.http
        /\ ret' = o.ret
        /\ UNCHANGED <<organization, team_members, fetched>>

(* ------------------------ remove_user_from_team ------------------------ *)

\* "User {} does not belong to team {}".format(user, team)
ExpectedMessage(user, team) ==
    <<"User ", user, " does not belong to team ", team>>

\* the 'message' of a failed team-membership DELETE
Messages ==
    {ExpectedMessage(u, t) : u \in Users, t \in Teams} \cup {<<"Unauthorized">>}

\* responses of DELETE organization/{org}/team/{team}/members/{user}; a
\* failed one may carry a JSON body without a 'message'
TeamDeleteResponses ==
    [status_code : {204}, text : {""}, has_message : {FALSE}, message : {<<>>}]
    \cup [status_code : {400}, text : {"denied"}, has_message : {TRUE},
          message : Messages]
    \cup [status_code : {500}, text : {"oops"}, has_message : BOOLEAN,
          message : {<<>>}]

KeyError(key) == [type |-> "KeyError", message |-> <<key>>]

\* mutant: the message is matched on the user alone
TeamDeleteAcceptedAnyTeam(user, team, r) ==
    \E t \in Teams : r.message = ExpectedMessage(user, t)

\* lines 66-73: whether the failed team DELETE is let through
TeamDeleteAccepted(user, team, r) ==
    r.message = ExpectedMessage(user, team)

remove_user_from_team(user, team, r_team, r_org) ==
    LET del_team == Request("DELETE", "team_member", team, user, None, r_team)
        del_org == Request("DELETE", "org_member", "", user, None, r_org)
    IN
    IF ~ok(r_team) /\ ~r_team.has_message
    THEN [ret |-> Raise(KeyError("message")), http |-> <<del_team>>]
    ELSE IF ~ok(r_team) /\ ~TeamDeleteAccepted(user, team, r_team)
    THEN [ret |-> Raise(RequestsException(r_team)), http |-> <<del_team>>]
    ELSE IF ~ok(r_org)
    THEN [ret |-> Raise(RequestsException(r_org)), http |-> <<del_team, del_org>>]
    ELSE [ret |-> Return(TRUE), http |-> <<del_team, del_org>>]

RemoveUserFromTeam ==
    \E user \in Users, team \in Teams, r_team \in TeamDeleteResponses,
       r_org \in PlainResponses :
        LET o == remove_user_from_team(user, team, r_team, r_org) IN
        /\ op' = "remove_user_from_team"
        /\ args' = [user |-> user, team |-> team]
        /\ pre' = team_members
        /\ http' = o.http
        /\ ret' = o.ret
        /\ UNCHANGED <<organization, team_members, fetched>>

(* -------------------------- add_user_to_team --------------------------- *)

\* mutant: only the head of the list is looked at
HeadIsMember(user, list) == list # <<>> /\ list[1] = user

\* line 85: user in list
AlreadyMember(user, list) == user \in Range(list)

\* add_user_to_team(user, team): r_get and members_list are the answer to
\* the GET of list_team_members(team, cache=True) and the order of its list,
\* r_put the answer to the PUT
add_user_to_team(org, tm, user, team, r_get, members_list, r_put) ==
    LET l == list_team_members(org, tm, team, TRUE, r_get, members_list)
        put == Request("PUT", "team_member", team, user, None, r_put)
    IN
    IF l.ret.kind = "raise"
    THEN l
    ELSE IF AlreadyMember(user, l.ret.value)
    THEN [l EXCEPT !.ret = Return(TRUE)]
    ELSE IF ~ok(r_put)
    THEN [l EXCEPT !.ret = Raise(RequestsException(r_put)),
                   !.http = Append(l.http, put)]
    ELSE [l EXCEPT !.ret = Return(TRUE), !.http = Append(l.http, put)]

AddUserToTeam ==
    \E user \in Users, team \in Teams, r_get \in MemberResponses,
       r_put \in PlainResponses :
      \E members_list \in MembersLists(r_get) :
        LET o == add_user_to_team(organization, team_members, user, team,
                                  r_get, members_list, r_put) IN
        /\ op' = "add_user_to_team"
        /\ args' = [user |-> user, team |-> team]
        /\ pre' = team_members
        /\ http' = o.http
        /\ ret' = o.ret
        /\ team_members' = o.tm
        /\ fetched' = IF o.got THEN DictSet(fetched, team, Range(r_get.members))
                      ELSE fetched
        /\ UNCHANGED organization

(* ----------------------------- list_images ----------------------------- *)

LIMIT_FOLLOWS == 15

\* a string-valued pagination token; the empty string is Token(<<>>)
Token(chars) == [token |-> chars]
PageToken(i) == Token(<<i>>)

\* Python truth of a 'next_page' value: None and "" are false
Truthy(v) == v # None /\ v # Token(<<>>)

\* The servers: pages 1..n of a listing.  Page i < n answers 200 with the
\* token of page i+1.  Page n ends the chain with no 'next_page' ("end"),
\* with an empty one ("empty"), with the token of page 1 again ("cycle", so
\* every response carries a token), or is answered by a failure ("fail").
Servers ==
    [n : 1..MaxPages, last : {"end", "empty", "cycle"}, shape : 0..1,
     status_code : {200}, text : {""}]
    \cup [n : 1..MaxPages, last : {"fail"}, shape : {0},
          status_code : FailStatuses, text : Texts]

\* the 'repositories' of page i: 0, 1 or 2 entries, each naming its page
Repositories(srv, i) ==
    [j \in 1..((i + srv.shape) % 3) |-> <<i, j>>]

\* the response to GET repository with the given 'next_page' parameter
Serve(srv, page) ==
    LET i == IF page = None THEN 1 ELSE page.token[1] IN
    IF i = srv.n /\ srv.last = "fail"
    THEN [status_code |-> srv.status_code, text |-> srv.text,
          repositories |-> <<>>, next_page |-> None]
    ELSE [status_code |-> 200, text |-> "",
          repositories |-> Repositories(srv, i),
          next_page |-> IF i < srv.n THEN PageToken(i + 1)
                        ELSE IF srv.last = "cycle" THEN PageToken(1)
                        ELSE IF srv.last = "empty" THEN Token(<<>>)
                        ELSE None]

\* line 101, raise("Too many page follows"): raising a str is itself a
\* TypeError in Python 3
TooManyFollows ==
    [type |-> "TypeError",
     message |-> <<"exceptions must derive from BaseException">>]

\* mutant: the limit is reached one follow early
OverLimitEarly(count) == count >= LIMIT_FOLLOWS

\* line 100: the guard of the page limit
OverLimit(count) == count > LIMIT_FOLLOWS

\* a list passed as the 'images' argument
List(s) == [list |-> s]

RECURSIVE list_images(_, _, _, _, _)
\* list_images(images, page, count) against srv; log holds the requests of
\* the enclosing calls
list_images(srv, images, page, count, log) ==
    IF OverLimit(count)
    THEN [ret |-> Raise(TooManyFollows), http |-> log]
    ELSE LET r == Serve(srv, page)
             get == Request("GET", "repository", "", "",
                            IF Truthy(page) THEN page ELSE None, r)
             acc == (IF images = None THEN <<>> ELSE images.list)
                    \o r.repositories
         IN
         IF ~ok(r)
         THEN [ret |-> Raise(RequestsException(r)), http |-> Append(log, get)]
         ELSE IF Truthy(r.next_page)
         THEN list_images(srv, List(acc), r.next_page, count + 1,
                          Append(log, get))
         ELSE [ret |-> Return(acc), http |-> Append(log, get)]

ListImages ==
    \E srv \in Servers :
        LET o == list_images(srv, None, None, 0, <<>>) IN
        /\ op' = "list_images"
        /\ args' = [srv |-> srv]
        /\ pre' = team_members
        /\ http' = o.http
        /\ ret' = o.ret
        /\ UNCHANGED <<organization, team_members, fetched>>

(* ------------------------------- amtool -------------------------------- *)

\* bytes the tool may write: "A", the two bytes of U+00E9, and 0xFF
Bytes == {65, 195, 169, 255}

\* what can happen to one run: the temporary file cannot be written, the
\* binary cannot be started, or the tool exits with a status and an output
Runs ==
    [tmp_ok : {FALSE}, started : {FALSE}, returncode : {0}, stdout : {<<>>}]
    \cup [tmp_ok : {TRUE}, started : {FALSE}, returncode : {0}, stdout : {<<>>}]
    \cup [tmp_ok : {TRUE}, started : {TRUE}, returncode : 0..2,
          stdout : SeqsUpTo(Bytes, MaxOut)]

YamlStrs == {"", "route: {}"}

RECURSIVE decode(_)
\* bytes.decode(): UTF-8, strict.  One- and two-byte sequences; any other
\* byte is an error.  Gives the code points, or invalid.
decode(b) ==
    IF b = <<>> THEN [valid |-> TRUE, text |-> <<>>]
    ELSE IF b[1] < 128
    THEN LET rest == decode(Tail(b)) IN
         [rest EXCEPT !.text = <<b[1]>> \o @]
    ELSE IF b[1] >= 194 /\ b[1] <= 223 /\ Len(b) >= 2
            /\ b[2] >= 128 /\ b[2] <= 191
    THEN LET rest == decode(Tail(Tail(b))) IN
         [rest EXCEPT !.text = <<(b[1] - 192) * 64 + (b[2] - 128)>> \o @]
    ELSE [valid |-> FALSE, text |-> <<>>]

AmtoolResult(is_ok, message) == [is_ok |-> is_ok, message |-> message]

\* lines 25-30: the exception the try block ends with, if any
TryBlock(run) ==
    IF ~run.tmp_ok THEN <<"OSError">>
    ELSE IF ~run.started THEN <<"FileNotFoundError">>
    ELSE IF run.returncode # 0 THEN <<"CalledProcessError", run.returncode>>
    ELSE <<>>

_run_yaml_str_cmd(cmd, yaml_str, run) ==
    LET e == TryBlock(run) IN
    IF e # <<>>
    THEN Return(AmtoolResult(FALSE, <<"Error running amtool: ">> \o e))
    ELSE LET d == decode(run.stdout) IN
         IF d.valid THEN Return(AmtoolResult(TRUE, d.text))
         ELSE Raise([type |-> "UnicodeDecodeError", message |-> <<"utf-8">>])

check_config(yaml_str, run) ==
    _run_yaml_str_cmd(<<"amtool", "check-config">>, yaml_str, run)

CheckConfig ==
    \E yaml_str \in YamlStrs, run \in Runs :
        /\ op' = "check_config"
        /\ args' = [yaml_str |-> yaml_str, run |-> run]
        /\ pre' = team_members
        /\ http' = <<>>
        /\ ret' = check_config(yaml_str, run)
        /\ UNCHANGED <<organization, team_members, fetched>>

(* ------------------------------ machine -------------------------------- *)

EmptyDict == [t \in {} |-> <<>>]

Init ==
    /\ organization \in Organizations
    /\ team_members = EmptyDict
    /\ op = "init"
    /\ args = None
    /\ pre = EmptyDict
    /\ http = <<>>
    /\ ret = Return(None)
    /\ fetched = [t \in {} |-> {}]

Next ==
    \/ ListTeamMembers
    \/ UserExists
    \/ RemoveUserFromTeam
    \/ AddUserToTeam

Spec == Init /\ [][Next]_vars

\* the repository listing alone; it neither reads nor writes the cache
NextImages ==
    \/ ListImages

SpecImages == Init /\ [][NextImages]_vars

\* the amtool wrapper alone; it shares nothing with the client
NextAmtool ==
    \/ CheckConfig

SpecAmtool == Init /\ [][NextAmtool]_vars

(* ------------------------------- claims -------------------------------- *)

\* a 2xx status
Success(r) == r.status_code \in 200..299

\* the requests of the last call made with the given HTTP method
Issued(method) == SelectSeq(http, LAMBDA q : q.method = method)

\* C1: once a team has been fetched successfully (its entry is in the cache
\* before the call), list_team_members(team, cache=True) returns the cached
\* list and issues no GET, whatever the list holds, the empty list included.
C1_CachedListReused ==
    (op = "list_team_members" /\ args.cache /\ args.team \in DOMAIN pre)
    => (http = <<>> /\ ret = Return(pre[args.team]))

\* C2: in remove_user_from_team the organization DELETE is issued only after
\* the team DELETE succeeded or failed with exactly the message "User {user}
\* does not belong to team {team}"; a team DELETE failing with another
\* message raises the generic error and no organization DELETE is issued;
\* True is returned only when the organization DELETE succeeded and the
\* generic error is raised when it did not.
C2_RemoveOrder ==
    op = "remove_user_from_team" =>
      LET r1 == http[1].r
          expected == <<"User ", args.user, " does not belong to team ",
                        args.team>>
      IN
      /\ Len(http) \in 1..2
      /\ http[1].method = "DELETE" /\ http[1].endpoint = "team_member"
      /\ http[1].team = args.team /\ http[1].user = args.user
      /\ Len(http) = 2 =>
           /\ http[2].method = "DELETE" /\ http[2].endpoint = "org_member"
           /\ http[2].user = args.user
           /\ Success(r1) \/ (r1.has_message /\ r1.message = expected)
      /\ (~Success(r1) /\ r1.has_message /\ r1.message # expected) =>
           /\ Len(http) = 1
           /\ ret.kind = "raise" /\ ret.exc.type = "RequestsException"
           /\ ret.exc.message[2] = r1.status_code
           /\ ret.exc.message[4] = r1.text
      /\ ret.kind = "return" =>
           ret.value = TRUE /\ Len(http) = 2 /\ Success(http[2].r)
      /\ (Len(http) = 2 /\ ~Success(http[2].r)) =>
           /\ ret.kind = "raise" /\ ret.exc.type = "RequestsException"
           /\ ret.exc.message[2] = http[2].r.status_code
           /\ ret.exc.message[4] = http[2].r.text

\* C2 witness: a team DELETE refused with the expected message, followed by
\* a successful organization DELETE
C2_Witness ==
    /\ op = "remove_user_from_team"
    /\ Len(http) = 2
    /\ ~Success(http[1].r)
    /\ http[1].r.message = ExpectedMessage(args.user, args.team)
    /\ ret = Return(TRUE)

AddFetches == Issued("GET")
AddListReturned == AddFetches = <<>> \/ Success(AddFetches[1].r)
AddList ==
    IF AddFetches = <<>> THEN Range(pre[args.team])
    ELSE Range(AddFetches[1].r.members)

\* what add_user_to_team does once it holds a list: nothing but return True
\* when the user is in it, else exactly one PUT whose outcome decides
AddOnList ==
    LET puts == Issued("PUT") IN
    IF args.user \in AddList
    THEN puts = <<>> /\ ret = Return(TRUE)
    ELSE /\ Len(puts) = 1
         /\ puts[1].endpoint = "team_member"
         /\ puts[1].team = args.team /\ puts[1].user = args.user
         /\ IF Success(puts[1].r)
            THEN ret = Return(TRUE)
            ELSE /\ ret.kind = "raise"
                 /\ ret.exc.type = "RequestsException"
                 /\ ret.exc.message[2] = puts[1].r.status_code
                 /\ ret.exc.message[4] = puts[1].r.text

\* C4 as stated: add_user_to_team issues no PUT and returns True when the
\* list of list_team_members(team, cache=True) holds the user; in every
\* other case, the one where that call raised included, it issues exactly
\* one PUT, returns True if it succeeds and raises the generic error if not.
C4_AsStated ==
    op = "add_user_to_team" =>
      IF AddListReturned
      THEN AddOnList
      ELSE LET puts == Issued("PUT") IN
           /\ Len(puts) = 1
           /\ Success(puts[1].r) => ret = Return(TRUE)
           /\ ~Success(puts[1].r) =>
                ret.kind = "raise" /\ ret.exc.type = "RequestsException"

\* C4 amended: as stated whenever list_team_members returned a list; when
\* it raised (its GET was answered 404 or another non-2xx status) no PUT is
\* issued and add_user_to_team raises that same error.
C4_AddUser ==
    op = "add_user_to_team" =>
      IF AddListReturned
      THEN AddOnList
      ELSE /\ Issued("PUT") = <<>>
           /\ ret.kind = "raise"
           /\ IF AddFetches[1].r.status_code = 404
              THEN ret.exc.type = "ValueError"
              ELSE /\ ret.exc.type = "RequestsException"
                   /\ ret.exc.message[2] = AddFetches[1].r.status_code

\* C4 witness: the user is in the cached list, nothing is sent
C4_Witness ==
    /\ op = "add_user_to_team"
    /\ args.team \in DOMAIN pre
    /\ args.user \in Range(pre[args.team])
    /\ http = <<>>
    /\ ret = Return(TRUE)

\* C5 as stated: add_user_to_team and remove_user_from_team leave the cache
\* exactly as it was.
C5_AsStated ==
    op \in {"add_user_to_team", "remove_user_from_team"} => team_members = pre

\* the entry of team t is the same in dictionaries a and b
SameEntry(a, b, t) ==
    /\ t \in DOMAIN a <=> t \in DOMAIN b
    /\ t \in DOMAIN a => a[t] = b[t]

\* C5 amended: remove_user_from_team leaves the cache as it was;
\* add_user_to_team leaves every other team's entry as it was and writes
\* its own team's entry only when it had no non-empty cached list for it and
\* its members GET succeeded, the entry then being the fetched names, each
\* once.
C5_MutationsAndCache ==
    /\ op = "remove_user_from_team" => team_members = pre
    /\ op = "add_user_to_team" =>
         /\ \A t \in Teams \ {args.team} : SameEntry(team_members, pre, t)
         /\ IF AddFetches # <<>> /\ Success(AddFetches[1].r)
            THEN /\ ~(args.team \in DOMAIN pre /\ pre[args.team] # <<>>)
                 /\ args.team \in DOMAIN team_members
                 /\ Range(team_members[args.team])
                      = Range(AddFetches[1].r.members)
                 /\ Len(team_members[args.team])
                      = Cardinality(Range(AddFetches[1].r.members))
            ELSE SameEntry(team_members, pre, args.team)

\* C5 witness: an add that filled its team's entry while another team's
\* entry was in the cache
C5_Witness ==
    /\ op = "add_user_to_team"
    /\ args.team \notin DOMAIN pre
    /\ args.team \in DOMAIN team_members
    /\ \E t \in Teams \ {args.team} : t \in DOMAIN pre /\ pre[t] # <<>>

ChainsAtLeast(k) ==
    args.srv.last # "fail" /\ (args.srv.n >= k \/ args.srv.last = "cycle")

\* C3: list_images with default arguments returns no result when the server
\* chains 16 or more pages: it fails with the too-many-pages error the code
\* names, which is not the generic request-failure error.
C3_TooManyPages ==
    (op = "list_images" /\ ChainsAtLeast(16)) =>
      /\ ret.kind = "raise"
      /\ ret.exc.type # "RequestsException"
      /\ ret.exc.message = <<"Too many page follows">>

RECURSIVE Concat(_)
\* the concatenation of a sequence of sequences
Concat(ss) == IF ss = <<>> THEN <<>> ELSE Head(ss) \o Concat(Tail(ss))

C7_AlwaysAResult ==
    op = "check_config" =>
      /\ ret.kind = "return"
      /\ ret.value.is_ok <=>
           (args.run.tmp_ok /\ args.run.started /\ args.run.returncode = 0)

====
